---- MODULE Spec2Model ----
(***************************************************************************)
(* Verification model of secdata_collection:                               *)
(*   - utils/transform.py   get_updates_from_df (record reconciliation)    *)
(*   - utils/api_requests.py make_request, request_stream_to_file,         *)
(*                           get_ordered_storage_names, get_resume_info    *)
(*   - datafeeds/nist/api_conn.py   _get_cve_loop                          *)
(*   - datafeeds/github/api_conn.py get_ghsa_data, get_ghsa_update_data,   *)
(*                                  get_git_vuln_data                      *)
(*   - utils/transform.py   consolidate_partial_datafiles                  *)
(*   - datafeeds/nist/api_conn.py   _check_headers                         *)
(*   - datafeeds/cisa/tasks.py      CISAKevDBUpdate.main                   *)
(***************************************************************************)
EXTENDS Integers, Sequences, FiniteSets, TLC

VARIABLES
    \* ---- get_updates_from_df ----
    db_df,        \* DataFrame read from the database ("current")
    p_df,         \* DataFrame from the data source ("incoming")
    pk_cols,      \* list of primary key column names
    rec_result,   \* what get_updates_from_df returned or raised
    \* ---- page store and upstream API ----
    feed,         \* which fetcher owns the prefix
    up_total,     \* totalResults of the upstream result set
    up_rpp,       \* resultsPerPage of the upstream API
    store,        \* the page files under the prefix, by integer index
    resume_info,  \* what a direct call of get_resume_info returned
    \* ---- one fetch call (_get_cve_loop / get_ghsa_data / ...) ----
    pc,               \* position of the running fetch call
    index,            \* start_index (nist) / entry_index (GitHub)
    total_results,    \* total_results of _get_cve_loop
    results_per_page, \* results_per_page of _get_cve_loop
    has_next,         \* has_next of the GitHub fetchers
    after,            \* query_vars['after'] of the GitHub fetchers
    first,            \* nist: the request under way is the first request
    attempt,          \* attempt of request_stream_to_file
    mr_attempt,       \* attempt of make_request
    response,         \* response of make_request
    err,              \* the exception a failed fetch call ended with
    calls,            \* fetch calls started so far on this prefix
    resumed,          \* what get_resume_info gave the running call
    first_req,        \* first HTTP request the running call issued
    clean,            \* every response so far was a 200 written whole
    last_exc,         \* what raised last in request_stream_to_file
    slept,            \* sleep(_SLEEP_TIME) has run since the last request
    rstf_reqs,        \* HTTP requests of the request_stream_to_file call
    \* ---- get_ordered_storage_names / get_resume_info on file names ----
    storage_items,    \* storage_loc.iter_location(): the directory entries
    scan,             \* what get_resume_info returned or raised
    \* ---- consolidate_partial_datafiles ----
    raw_files,        \* the parts, each the lines of one file
    dest_loc,         \* the destination file
    tmp_loc,          \* the file tmp_{dest_loc.name} next to it
    cons_pc,          \* position of the call
    raw_i,            \* position of the for loop over raw_files
    pending,          \* lines of data_ref.readlines() not yet written
    part_opened,      \* some part has been opened for reading
    retried,          \* the call under way follows one that failed or died
    fault,            \* the operation that failed inside the call
    cons_exc,         \* the exception the call raised
    \* ---- _check_headers ----
    HAS_TOKEN,        \* module global _HAS_TOKEN
    SLEEP_TIME,       \* module global _SLEEP_TIME
    header_calls,     \* the calls so far: credential given, delay set
    \* ---- CISAKevDBUpdate.main ----
    kev_pc,           \* position of main
    kev_table,        \* rows of the CISAKev table
    kev_before,       \* rows the table held when main was entered
    kev_upstream,     \* rows of the catalogue CISA serves
    kev_file,         \* tmp_file: "absent", "partial" or "whole"
    kev_attempt,      \* attempt of request_stream_to_file
    kev_download      \* how the download went: "none", "ok", "failed"

recVars == <<db_df, p_df, pk_cols, rec_result>>

upVars == <<feed, up_total, up_rpp>>

locals == <<pc, index, total_results, results_per_page, has_next, after,
            first, attempt, mr_attempt, response, err>>

fetchVars == <<pc, index, total_results, results_per_page, has_next, after,
               first, attempt, mr_attempt, response, err, calls, resumed,
               first_req, clean, last_exc, slept, rstf_reqs>>

scanVars == <<storage_items, scan>>

consVars == <<raw_files, dest_loc, tmp_loc, cons_pc, raw_i, pending,
              part_opened, retried, fault, cons_exc>>

hdrVars == <<HAS_TOKEN, SLEEP_TIME, header_calls>>

kevVars == <<kev_pc, kev_table, kev_before, kev_upstream, kev_file,
             kev_attempt, kev_download>>

utilVars == <<scanVars, consVars, hdrVars, kevVars>>

vars == <<db_df, p_df, pk_cols, rec_result, feed, up_total, up_rpp, store,
          resume_info, pc, index, total_results, results_per_page, has_next,
          after, first, attempt, mr_attempt, response, err, calls, resumed,
          first_req, clean, last_exc, slept, rstf_reqs, storage_items, scan,
          raw_files,
          dest_loc, tmp_loc, cons_pc, raw_i, pending, part_opened, retried,
          fault,
          cons_exc, HAS_TOKEN, SLEEP_TIME, header_calls, kev_pc, kev_table,
          kev_before, kev_upstream, kev_file, kev_attempt, kev_download>>

(***************************************************************************)
(* Bounds of the model.                                                    *)
(***************************************************************************)
MaxRows == 2
\* Largest totalResults of the upstream result set.
MaxTotal == 3
\* Most fetch calls made on one prefix (first run plus resumed runs).
MaxCalls == 3
\* Most entries of a directory that get_resume_info lists.
MaxFiles == 2
\* Most parts handed to consolidate_partial_datafiles.
MaxParts == 2
\* Most calls of _check_headers in one process.
MaxHeaderCalls == 3

\* Cell values of the modelled DataFrames.
Vals == {1, 2}
\* Column layouts: the full layout, and one that lacks the column "k2".
ColSets == {{"k1", "k2", "v"}, {"k1", "v"}}
\* Primary key lists handed to get_updates_from_df.
PkChoices == {<<"k1">>, <<"k1", "k2">>}

Range(s) == {s[i] : i \in 1..Len(s)}

SeqsUpTo(S, n) == UNION {[1..m -> S] : m \in 0..n}

\* A DataFrame: its columns and its rows in positional order.
DataFrames == UNION {
    {[cols |-> cs, rows |-> rs] : rs \in SeqsUpTo([cs -> Vals], MaxRows)}
    : cs \in ColSets}

(***************************************************************************)
(* utils/transform.py                                                      *)
(***************************************************************************)

\* Variant of _check_req_cols that looks at the first required column only.
check_req_cols_first(cols, df) == cols[1] \in df.cols

\* _check_req_cols: TRUE when no column of cols is missing from the frame
\* (the code raises RuntimeError otherwise).
check_req_cols(cols, df) ==
    LET missing_cols == {c \in Range(cols) : c \notin df.cols}
    IN  missing_cols = {}

\* Variant of KeyOf that keys a row by its first key column alone.
KeyOf_first(row, pk) == <<row[pk[1]]>>

\* One entry of pd.MultiIndex.from_frame(df[pk_cols]): the tuple of the
\* row's values in the key columns, in pk_cols order.
KeyOf(row, pk) == [i \in 1..Len(pk) |-> row[pk[i]]]

\* pd.MultiIndex.from_frame(df[pk_cols])
m_index(df, pk) == [i \in 1..Len(df.rows) |-> KeyOf(df.rows[i], pk)]

\* MultiIndex.isin: for each entry of idx, whether the tuple occurs in values.
isin(idx, values) ==
    [i \in 1..Len(idx) |-> \E j \in 1..Len(values) : values[j] = idx[i]]

\* Boolean-mask row selection df[mask], keeping the positional order.
RECURSIVE SelectMask(_, _)
SelectMask(rows, mask) ==
    IF rows = <<>> THEN <<>>
    ELSE LET rest == SelectMask(Tail(rows), Tail(mask))
         IN  IF Head(mask) THEN <<Head(rows)>> \o rest ELSE rest

\* Variant of NotMask that forgets the negation.
NotMask_same(mask) == mask

\* ~record_found_v, the mask of new_df.
NotMask(mask) == [i \in 1..Len(mask) |-> ~mask[i]]

\* Lexicographic order of two key tuples of equal length.
RECURSIVE LexLess(_, _)
LexLess(a, b) ==
    IF a = <<>> THEN FALSE
    ELSE IF Head(a) < Head(b) THEN TRUE
    ELSE IF Head(a) > Head(b) THEN FALSE
    ELSE LexLess(Tail(a), Tail(b))

\* Insertion of a row behind every row whose key is not greater (stable).
RECURSIVE InsertSorted(_, _, _)
InsertSorted(row, sorted, pk) ==
    IF sorted = <<>> THEN <<row>>
    ELSE IF LexLess(KeyOf(row, pk), KeyOf(Head(sorted), pk))
         THEN <<row>> \o sorted
         ELSE <<Head(sorted)>> \o InsertSorted(row, Tail(sorted), pk)

\* Variant of sort_values that leaves the rows in their given order.
sort_values_none(rows, pk) == rows

\* DataFrame.sort_values(pk_cols).reset_index().drop(columns='index'):
\* rows in ascending key order, ties in their original order (the order a
\* key list of several columns always gives, and a single column gives on
\* frames this short; either way the order is a function of the keys alone).
RECURSIVE sort_values(_, _)
sort_values(rows, pk) ==
    IF rows = <<>> THEN <<>>
    ELSE InsertSorted(rows[Len(rows)],
                      sort_values(SubSeq(rows, 1, Len(rows) - 1), pk), pk)

\* orig_df[poss_update_df.columns.to_list()]: the rows cut to the columns cs.
Project(rows, cs) ==
    [i \in 1..Len(rows) |-> [c \in cs |-> rows[i][c]]]

\* DataFrame.compare(...).index: the positions whose rows differ in at least
\* one column (key columns included).
compare_index(left, right, cs) ==
    [i \in 1..Len(left) |-> \E c \in cs : left[i][c] # right[i][c]]

\* Variant of updates_recs that takes the differing rows from the database side.
updates_recs_orig(poss_update, orig, diff) == SelectMask(orig, diff)

\* poss_update_df.loc[ index ]: the rows the update frame is made of.
updates_recs(poss_update, orig, diff) == SelectMask(poss_update, diff)

\* get_updates_from_df(db_df, p_df, pk_cols)
get_updates_from_df(db, p, pk) ==
    IF ~check_req_cols(pk, p) \/ ~check_req_cols(pk, db)
    THEN [status |-> "RuntimeError"]
    ELSE IF ~(Range(pk) \subseteq p.cols /\ Range(pk) \subseteq db.cols)
    THEN [status |-> "KeyError"]        \* p_df[pk_cols] on a missing column
    ELSE
    LET p_m_index      == m_index(p, pk)
        db_m_index     == m_index(db, pk)
        record_found_v == isin(p_m_index, db_m_index)
        orig_found_v   == isin(db_m_index, p_m_index)
        new_df         == SelectMask(p.rows, NotMask(record_found_v))
        poss_update_df == sort_values(SelectMask(p.rows, record_found_v), pk)
        orig_df        == sort_values(SelectMask(db.rows, orig_found_v), pk)
    IN  IF ~(p.cols \subseteq db.cols)
        THEN [status |-> "KeyError"]    \* orig_df[columns of p_df]
        ELSE IF Len(poss_update_df) # Len(orig_df)
        THEN [status |-> "ValueError"]  \* compare: not identically labeled
        ELSE [status  |-> "ok",
              new     |-> new_df,
              updates |-> updates_recs(poss_update_df,
                              Project(orig_df, p.cols),
                              compare_index(poss_update_df,
                                  Project(orig_df, p.cols), p.cols))]

\* get_resume_info has not been called directly.
NotCalled == [called |-> FALSE, ret |-> <<>>]

\* No get_resume_info result was handed to the fetch call.
NotResumed == [scanned |-> FALSE, ret |-> <<>>]

\* The fetch call has issued no HTTP request.
NoReq == [src |-> -1, dest |-> -1]

\* No fetch call is running and none has run.
FetchIdle ==
    /\ pc = "idle" /\ index = 0 /\ total_results = 0 /\ results_per_page = 0
    /\ has_next = FALSE /\ after = 0 /\ first = FALSE
    /\ attempt = 0 /\ mr_attempt = 0 /\ response = "none" /\ err = "none"
    /\ calls = 0 /\ resumed = NotResumed /\ first_req = NoReq
    /\ clean = TRUE /\ last_exc = "none"
    /\ slept = FALSE /\ rstf_reqs = 0

\* get_resume_info has not been called on a directory listing.
NotScanned == [status |-> "idle", ret |-> <<>>]

\* A path at which there is no file.
NoFile == [exists |-> FALSE, lines |-> <<>>]

\* No directory listing is under study.
ScanIdle == storage_items = <<>> /\ scan = NotScanned

\* No consolidation is running and none has run.
ConsIdle ==
    /\ raw_files = <<>> /\ dest_loc = NoFile /\ tmp_loc = NoFile
    /\ cons_pc = "idle" /\ raw_i = 0 /\ pending = <<>>
    /\ part_opened = FALSE /\ retried = FALSE
    /\ fault = "none" /\ cons_exc = "none"

\* _SLEEP_TIME as the module is loaded.
SLEEP_TIME_default == 20

\* _check_headers has not been called: the globals as the module sets them.
HdrIdle ==
    /\ HAS_TOKEN = FALSE /\ SLEEP_TIME = SLEEP_TIME_default
    /\ header_calls = <<>>

\* CISAKevDBUpdate.main is not running and has not run.
KevIdle ==
    /\ kev_pc = "idle" /\ kev_table = {} /\ kev_before = {}
    /\ kev_upstream = {} /\ kev_file = "absent" /\ kev_attempt = 0
    /\ kev_download = "none"

UtilIdle == ScanIdle /\ ConsIdle /\ HdrIdle /\ KevIdle

RecIdle ==
    /\ db_df = [cols |-> {}, rows |-> <<>>]
    /\ p_df = [cols |-> {}, rows |-> <<>>]
    /\ pk_cols = <<>>
    /\ rec_result = [status |-> "idle"]

RecInit ==
    /\ db_df \in DataFrames
    /\ p_df \in DataFrames
    /\ pk_cols \in PkChoices
    /\ rec_result = [status |-> "pending"]
    /\ feed = "nist" /\ up_total = 1 /\ up_rpp = 1
    /\ store = [i \in 0..MaxTotal |-> [kind |-> "absent"]]
    /\ resume_info = NotCalled
    /\ FetchIdle
    /\ UtilIdle

\* One call of get_updates_from_df on the drawn inputs.
Reconcile ==
    /\ rec_result.status = "pending"
    /\ rec_result' = get_updates_from_df(db_df, p_df, pk_cols)
    /\ UNCHANGED <<db_df, p_df, pk_cols>>
    /\ UNCHANGED <<utilVars, upVars, store, resume_info, fetchVars>>

SpecReconcile == RecInit /\ [][Reconcile]_vars

(***************************************************************************)
(* Properties of get_updates_from_df, checked under SpecReconcile.         *)
(***************************************************************************)
Returned == rec_result.status = "ok"

\* Whether two rows agree on every key field.
SameKey(r, d) == \A c \in Range(pk_cols) : r[c] = d[c]

KeyInDb(r) == \E j \in 1..Len(db_df.rows) : SameKey(r, db_df.rows[j])

UniqueKeys(df) ==
    \A i, j \in 1..Len(df.rows) : SameKey(df.rows[i], df.rows[j]) => i = j

\* C1: the 'new' frame is exactly the incoming rows, in their order, whose
\* composite key (every key field equal) occurs in no current row; a row that
\* agrees with a current row on only some key fields is new.
C1_NewIsAbsentKeys ==
    Returned =>
        rec_result.new = SelectSeq(p_df.rows, LAMBDA r : ~KeyInDb(r))

\* A returned call whose 'new' frame holds a row that matches a current row
\* on k1 but not on k2, under the key (k1, k2).
C1_Witness ==
    /\ Returned
    /\ pk_cols = <<"k1", "k2">>
    /\ \E i \in 1..Len(rec_result.new) : \E j \in 1..Len(db_df.rows) :
          /\ rec_result.new[i]["k1"] = db_df.rows[j]["k1"]
          /\ rec_result.new[i]["k2"] # db_df.rows[j]["k2"]

\* The incoming rows that have a current row of the same key differing in a
\* non-key field.
ChangedAsSpecified ==
    {r \in Range(p_df.rows) :
        \E j \in 1..Len(db_df.rows) :
            /\ SameKey(r, db_df.rows[j])
            /\ \E c \in p_df.cols \ Range(pk_cols) : r[c] # db_df.rows[j][c]}

\* C2: with unique keys on both sides, the 'changed' frame holds exactly the
\* incoming rows whose key is in current and which differ from their match in
\* a non-key field, each once and with the incoming values.
C2_ChangedIsDiffering ==
    (Returned /\ UniqueKeys(p_df) /\ UniqueKeys(db_df)) =>
        /\ Range(rec_result.updates) = ChangedAsSpecified
        /\ Len(rec_result.updates) = Cardinality(ChangedAsSpecified)

\* A returned call on unique keys with a changed row and, beside it, an
\* incoming row identical to its current match that is left out.
C2_Witness ==
    /\ Returned /\ UniqueKeys(p_df) /\ UniqueKeys(db_df)
    /\ Len(rec_result.updates) = 1
    /\ \E i \in 1..Len(p_df.rows) : \E j \in 1..Len(db_df.rows) :
          /\ p_df.cols = db_df.cols
          /\ p_df.rows[i] = db_df.rows[j]
          /\ p_df.rows[i] \notin Range(rec_result.updates)

\* C3: with unique incoming keys, new and changed hold only incoming rows and
\* share no row.
C3_DisjointSubsets ==
    (Returned /\ UniqueKeys(p_df)) =>
        /\ Range(rec_result.new) \cup Range(rec_result.updates)
               \subseteq Range(p_df.rows)
        /\ Range(rec_result.new) \cap Range(rec_result.updates) = {}

\* A returned call on unique incoming keys with a new row and a changed row.
C3_Witness ==
    /\ Returned /\ UniqueKeys(p_df)
    /\ rec_result.new # <<>>
    /\ rec_result.updates # <<>>

\* C4: reconciling a frame that has the key columns against itself returns
\* an empty 'new' and an empty 'changed'.
C4_SelfReconcileEmpty ==
    (p_df = db_df
        /\ Range(pk_cols) \subseteq db_df.cols
        /\ rec_result.status # "pending") =>
        /\ Returned
        /\ rec_result.new = <<>>
        /\ rec_result.updates = <<>>

\* A finished self-reconciliation of a frame of two rows.
C4_Witness ==
    /\ p_df = db_df
    /\ Len(db_df.rows) = 2
    /\ db_df.rows[1] # db_df.rows[2]
    /\ Returned

MissingKeyCol ==
    \E c \in Range(pk_cols) : c \notin p_df.cols \/ c \notin db_df.cols

\* C5: when a key column is missing from either frame the call raises
\* RuntimeError and yields neither a new nor a changed frame.
C5_MissingColumnFails ==
    (MissingKeyCol /\ rec_result.status # "pending") =>
        rec_result = [status |-> "RuntimeError"]

\* A failed call where the key column k2 is missing from the current frame
\* only.
C5_Witness ==
    /\ "k2" \in Range(pk_cols)
    /\ "k2" \in p_df.cols /\ "k2" \notin db_df.cols
    /\ rec_result.status = "RuntimeError"

(***************************************************************************)
(* Page store and upstream API.                                            *)
(***************************************************************************)
Feeds == {"nist", "ghsa", "ghsa_update", "git_vuln"}
\* Page sizes the upstream API may use for a session.
Rpps == {1, 2}
\* Page file indices under the prefix ("{prefix}{index}.json").
Idx == 0..MaxTotal

Absent  == [kind |-> "absent"]
\* A file whose JSON does not load or does not pass the response check:
\* truncated by an interrupted write, or a complete error response.
Corrupt == [kind |-> "corrupt"]

\* The response body the upstream API gives for continuation position s
\* (nist: startIndex s; GitHub: the cursor after s pages).
UpBody(fd, s, total, rpp) ==
    IF fd = "nist"
    THEN [totalResults |-> total, resultsPerPage |-> rpp]
    ELSE [hasNextPage |-> (s + 1) * rpp < total, endCursor |-> s + 1]

\* A completely written page file holding the response for position s.
UpPage(fd, s, total, rpp) ==
    [kind |-> "valid", src |-> s, body |-> UpBody(fd, s, total, rpp)]

Pages(fd, total, rpp) ==
    {Absent, Corrupt} \cup {UpPage(fd, s, total, rpp) : s \in Idx}

EmptyStore == [i \in Idx |-> Absent]

\* StorageLocation.exists() of the page file with index i.
exists(st, i) == st[i].kind # "absent"

\* Whether json.load / _response_integrity_check raises on the page file.
callback_raises(page) == page.kind # "valid"

\* _db_file_load_callback: (totalResults, resultsPerPage) of a page file.
db_file_load_callback(page) ==
    <<page.body.totalResults, page.body.resultsPerPage>>

\* _get_next_request_info: (hasNextPage, endCursor) of a page file.
get_next_request_info(page) ==
    <<page.body.hasNextPage, page.body.endCursor>>

\* The resume callback each fetcher hands to get_resume_info.
resume_callback(fd, page) ==
    IF fd = "nist" THEN db_file_load_callback(page)
    ELSE get_next_request_info(page)

RECURSIVE Ascending(_)
Ascending(S) ==
    IF S = {} THEN <<>>
    ELSE LET lo == CHOOSE x \in S : \A y \in S : x <= y
         IN  <<lo>> \o Ascending(S \ {lo})

RECURSIVE Descending(_)
Descending(S) ==
    IF S = {} THEN <<>>
    ELSE LET hi == CHOOSE x \in S : \A y \in S : x >= y
         IN  <<hi>> \o Descending(S \ {hi})

\* Variant of get_ordered_storage_names that sorts in descending order.
get_ordered_storage_names_desc(st) ==
    Descending({i \in DOMAIN st : exists(st, i)})

\* get_ordered_storage_names: the indices of the page files under the
\* prefix, sorted by integer value (the keys of the returned dict).
get_ordered_storage_names(st) ==
    Ascending({i \in DOMAIN st : exists(st, i)})

\* The for loop of get_resume_info over the ordered files.
RECURSIVE ResumeScan(_, _, _, _)
ResumeScan(st, fd, ordered_files, prev_value) ==
    IF ordered_files = <<>> THEN prev_value
    ELSE LET file_index == Head(ordered_files)
         IN  IF callback_raises(st[file_index])
             THEN prev_value           \* bare except: return prev_value
             ELSE ResumeScan(st, fd, Tail(ordered_files),
                     <<file_index, resume_callback(fd, st[file_index])>>)

\* A scan that skips a page whose callback raises instead of returning.
RECURSIVE ResumeScanSkip(_, _, _, _)
ResumeScanSkip(st, fd, ordered_files, prev_value) ==
    IF ordered_files = <<>> THEN prev_value
    ELSE LET file_index == Head(ordered_files)
         IN  IF callback_raises(st[file_index])
             THEN ResumeScanSkip(st, fd, Tail(ordered_files), prev_value)
             ELSE ResumeScanSkip(st, fd, Tail(ordered_files),
                     <<file_index, resume_callback(fd, st[file_index])>>)

\* Variant of get_resume_info that goes on after a failed inspection.
get_resume_info_skip(st, fd) ==
    ResumeScanSkip(st, fd, get_ordered_storage_names(st), <<>>)

\* get_resume_info: () or (index, callback result) of the last page
\* inspected before the first failure.
get_resume_info(st, fd) ==
    ResumeScan(st, fd, get_ordered_storage_names(st), <<>>)

ResumeInit ==
    /\ RecIdle
    /\ feed \in Feeds
    /\ up_total \in 1..MaxTotal
    /\ up_rpp \in Rpps
    /\ store \in [Idx -> Pages(feed, up_total, up_rpp)]
    /\ resume_info = NotCalled
    /\ FetchIdle
    /\ UtilIdle

\* One direct call of get_resume_info on the page directory.
ResumeCall ==
    /\ ~resume_info.called
    /\ resume_info' = [called |-> TRUE, ret |-> get_resume_info(store, feed)]
    /\ UNCHANGED <<utilVars, recVars, upVars, store, fetchVars>>

SpecResume == ResumeInit /\ [][ResumeCall]_vars

(***************************************************************************)
(* Properties of get_resume_info, checked under SpecResume.                *)
(***************************************************************************)
Present == {i \in Idx : exists(store, i)}

Highest == CHOOSE i \in Present : \A j \in Present : j <= i

C7_ResumeBeforeCorrupt ==
    \A k \in Present : \A b \in Present :
        (/\ resume_info.called
         /\ b < k
         /\ \A i \in Present : i < k => (i <= b /\ store[i].kind = "valid")
         /\ store[k].kind = "corrupt") =>
            resume_info.ret = <<b, resume_callback(feed, store[b])>>

\* A finished scan that stopped before a corrupt page that a valid page
\* follows.
C7_Witness ==
    /\ resume_info.called /\ resume_info.ret # <<>>
    /\ \E k \in Present : \E a \in Present :
          /\ resume_info.ret[1] < k /\ k < a
          /\ store[k].kind = "corrupt"
          /\ store[a].kind = "valid"

(***************************************************************************)
(* utils/api_requests.py get_ordered_storage_names on file names.          *)
(* A file name is a sequence of tokens: "P" is the file_prefix of the      *)
(* caller, "0" "1" "9" are digits, "." is the dot, "x" is any other single *)
(* character, "json" and "txt" are those runs of letters.                  *)
(***************************************************************************)
Digits == {"0", "1", "9"}

\* The single characters of a name (what '.' of the pattern can match).
NameChars == Digits \cup {".", "x"}

\* The indexer strings of the names in a directory: "09" and "9" are two
\* names for one integer, "10" sorts before "9" as a string.
DigitStrs == {<<"1">>, <<"9">>, <<"1", "0">>, <<"0", "9">>}

\* Names a directory may hold: page files "P<digits>.json", names with
\* another character or nothing in place of the dot, files with another
\* extension, and a file of another prefix.
FileNames ==
    {<<"P">> \o d \o sep \o <<"json">> :
        d \in DigitStrs, sep \in {<<".">>, <<"x">>, <<>>}}
    \cup {<<"P">> \o d \o <<".", "txt">> : d \in DigitStrs}
    \cup {<<"1", ".", "json">>}

\* re.match(rf'{file_prefix}[0-9]+.json', name): the prefix, one or more
\* digits, any one character, "json"; whatever follows is not looked at.
re_match(name) ==
    /\ Len(name) >= 1 /\ name[1] = "P"
    /\ \E k \in 1..Len(name) :
          /\ k + 3 <= Len(name)
          /\ \A i \in 2..(k + 1) : name[i] \in Digits
          /\ name[k + 2] \in NameChars
          /\ name[k + 3] = "json"

\* name.split('.')[0]
split_dot_0(name) ==
    LET dots == {i \in 1..Len(name) : name[i] = "."}
    IN  IF dots = {} THEN name
        ELSE SubSeq(name, 1, (CHOOSE i \in dots : \A j \in dots : i <= j) - 1)

\* .replace(file_prefix, '')
replace_prefix(s) == SelectSeq(s, LAMBDA t : t # "P")

\* Whether int(indexer) succeeds.
is_int(s) == s # <<>> /\ \A i \in 1..Len(s) : s[i] \in Digits

DigitVal(c) == CASE c = "0" -> 0 [] c = "1" -> 1 [] c = "9" -> 9

\* int(indexer) of a string of digits.
RECURSIVE int(_)
int(s) ==
    IF s = <<>> THEN 0
    ELSE 10 * int(SubSeq(s, 1, Len(s) - 1)) + DigitVal(s[Len(s)])

\* Variant of the loop that passes over a name whose indexer is no integer.
RECURSIVE storage_loop_skip(_, _)
storage_loop_skip(items, file_dict) ==
    IF items = <<>> THEN [status |-> "ok", file_dict |-> file_dict]
    ELSE LET storage_item == Head(items)
             indexer == replace_prefix(split_dot_0(storage_item.name))
         IN  IF ~re_match(storage_item.name) \/ ~is_int(indexer)
             THEN storage_loop_skip(Tail(items), file_dict)
             ELSE LET int_index == int(indexer)
                  IN  storage_loop_skip(Tail(items),
                         [i \in DOMAIN file_dict \cup {int_index} |->
                             IF i = int_index THEN storage_item.page
                             ELSE file_dict[i]])

\* The for loop of get_ordered_storage_names over iter_location(): the
\* files whose names match, keyed by int(indexer); ValueError when an
\* indexer is no integer.
RECURSIVE storage_loop(_, _)
storage_loop(items, file_dict) ==
    IF items = <<>> THEN [status |-> "ok", file_dict |-> file_dict]
    ELSE LET storage_item == Head(items)
             indexer == replace_prefix(split_dot_0(storage_item.name))
         IN  IF ~re_match(storage_item.name)
             THEN storage_loop(Tail(items), file_dict)
             ELSE IF ~is_int(indexer)
             THEN [status |-> "ValueError", file_dict |-> <<>>]
             ELSE LET int_index == int(indexer)
                  IN  storage_loop(Tail(items),
                         [i \in DOMAIN file_dict \cup {int_index} |->
                             IF i = int_index THEN storage_item.page
                             ELSE file_dict[i]])

\* The decimal digits of a key below 100.
Decimal(n) == IF n < 10 THEN <<n>> ELSE <<n \div 10, n % 10>>

\* Order of two keys as strings.
StrBefore(a, b) ==
    LET x == Decimal(a)
        y == Decimal(b)
    IN  \/ x[1] < y[1]
        \/ x[1] = y[1] /\ Len(x) < Len(y)
        \/ x[1] = y[1] /\ Len(x) = 2 /\ Len(y) = 2 /\ x[2] < y[2]

RECURSIVE LexAscending(_)
LexAscending(S) ==
    IF S = {} THEN <<>>
    ELSE LET lo == CHOOSE x \in S : \A y \in S \ {x} : StrBefore(x, y)
         IN  <<lo>> \o LexAscending(S \ {lo})

\* Variant of get_resume_info that goes through the keys in string order.
get_resume_info_names_lex(items, fd) ==
    LET listed == storage_loop(items, <<>>)
    IN  IF listed.status = "ValueError"
        THEN [status |-> "ValueError", ret |-> <<>>]
        ELSE [status |-> "ok",
              ret |-> ResumeScan(listed.file_dict, fd,
                         LexAscending(DOMAIN listed.file_dict), <<>>)]

\* get_resume_info on a directory given by its entries: the ValueError of
\* get_ordered_storage_names leaves the call, else the ordered files are
\* inspected.
get_resume_info_names(items, fd) ==
    LET listed == storage_loop(items, <<>>)
    IN  IF listed.status = "ValueError"
        THEN [status |-> "ValueError", ret |-> <<>>]
        ELSE [status |-> "ok", ret |-> get_resume_info(listed.file_dict, fd)]

\* A directory entry: its name and what the file holds.
StorageItems ==
    [name : FileNames, page : {Corrupt, UpPage("nist", 0, 1, 1)}]

\* What iter_location() may yield: entries of different names in any order.
Listings ==
    {l \in SeqsUpTo(StorageItems, MaxFiles) :
        \A i, j \in 1..Len(l) : i # j => l[i].name # l[j].name}

NamesInit ==
    /\ RecIdle
    /\ feed = "nist" /\ up_total = 1 /\ up_rpp = 1
    /\ store = EmptyStore
    /\ resume_info = NotCalled
    /\ FetchIdle
    /\ storage_items \in Listings
    /\ scan = [status |-> "pending", ret |-> <<>>]
    /\ ConsIdle /\ HdrIdle /\ KevIdle

\* One call of get_resume_info on the directory.
NamesCall ==
    /\ scan.status = "pending"
    /\ scan' = get_resume_info_names(storage_items, feed)
    /\ UNCHANGED storage_items
    /\ UNCHANGED <<consVars, hdrVars, kevVars, recVars, upVars, store, resume_info, fetchVars>>

SpecNames == NamesInit /\ [][NamesCall]_vars

(***************************************************************************)
(* Properties of get_resume_info on file names, checked under SpecNames.   *)
(***************************************************************************)

\* The page files of the directory by integer index.
ListedFiles == storage_loop(storage_items, <<>>).file_dict

\* The indices with every page up to them (in the order of the integers)
\* passing inspection.
ReachedKeys ==
    {k \in DOMAIN ListedFiles :
        \A j \in DOMAIN ListedFiles :
            j <= k => ~callback_raises(ListedFiles[j])}

\* C16: get_resume_info inspects the pages in ascending order of their
\* integer index (10 after 9), so that it returns the largest index reached
\* before the first page that fails inspection, and () when there is none.
C16_NumericOrder ==
    scan.status = "ok" =>
        IF ReachedKeys = {} THEN scan.ret = <<>>
        ELSE /\ scan.ret # <<>>
             /\ scan.ret[1] \in ReachedKeys
             /\ \A k \in ReachedKeys : k <= scan.ret[1]

\* Pages 9 and 10 are both inspected and 10 is the resume point.
C16_Witness ==
    /\ scan.status = "ok"
    /\ scan.ret # <<>>
    /\ scan.ret[1] = 10
    /\ 9 \in DOMAIN ListedFiles

\* A name that matches the pattern and whose indexer is no integer.
Unparsable(name) ==
    re_match(name) /\ ~is_int(replace_prefix(split_dot_0(name)))

\* C17: when an entry of the directory matches the page name pattern and
\* its name without prefix and extension is no integer, get_resume_info
\* raises ValueError: no resume point is returned.
C17_UnparsableNameRaises ==
    (scan.status # "pending"
     /\ \E i \in 1..Len(storage_items) : Unparsable(storage_items[i].name)) =>
        scan = [status |-> "ValueError", ret |-> <<>>]

\* The call raised although the directory also holds a page that passes
\* inspection.
C17_Witness ==
    /\ scan.status = "ValueError"
    /\ \E i \in 1..Len(storage_items) :
          /\ re_match(storage_items[i].name)
          /\ ~Unparsable(storage_items[i].name)
          /\ ~callback_raises(storage_items[i].page)

(***************************************************************************)
(* The fetchers: datafeeds/nist/api_conn.py _get_cve_loop and              *)
(* datafeeds/github/api_conn.py get_ghsa_data, get_ghsa_update_data,       *)
(* get_git_vuln_data, over utils/api_requests.py make_request and          *)
(* request_stream_to_file.                                                 *)
(***************************************************************************)
\* allowed_attempts default of make_request and request_stream_to_file.
allowed_attempts == 3

\* Where the count of the requests of one request_stream_to_file call
\* stops: one more than allowed_attempts calls of make_request can send.
ReqCap == allowed_attempts * allowed_attempts + 1

\* What request_stream_to_file gives back when it returns nothing.
None == <<>>

\* Outcomes of one requests.request call: it raises (connection error),
\* answers with an error status, with a success status other than 200, or
\* with 200.
HttpOutcomes == {"exc", "err", "ok204", "ok200"}

\* Outcomes of streaming a 200 response into the page file: the stream
\* breaks, or the file is completed with a well-formed or with an
\* uninspectable body.
WriteOutcomes == {"broken", "bad", "good"}

\* The locals of a fetch call that ended with an exception.
Raised(exc) ==
    [pc |-> "failed", index |-> 0, total_results |-> 0,
     results_per_page |-> 0, has_next |-> FALSE, after |-> 0,
     first |-> FALSE, err |-> exc]

\* _get_cve_loop from its entry to the while loop: resume from the page
\* files when page 0 exists, else start the first request.
get_cve_loop_start(st) ==
    IF exists(st, 0)
    THEN LET info == get_resume_info(st, "nist")
         IN  IF info = <<>>
             THEN Raised("IndexError")        \* resume_info[0] on ()
             ELSE [pc |-> "loop", index |-> info[1] + info[2][2],
                   total_results |-> info[2][1],
                   results_per_page |-> info[2][2],
                   has_next |-> FALSE, after |-> 0, first |-> FALSE,
                   err |-> "none"]
    ELSE [pc |-> "rstf", index |-> 0, total_results |-> 0,
          results_per_page |-> 0, has_next |-> FALSE, after |-> 0,
          first |-> TRUE, err |-> "none"]

\* get_ghsa_data / get_ghsa_update_data from entry to the while loop.
get_ghsa_data_start(st, fd) ==
    IF exists(st, 0)
    THEN LET final_info == get_resume_info(st, fd)
         IN  IF final_info = <<>>
             THEN Raised("IndexError")        \* final_info[0] on ()
             ELSE [pc |-> "loop", index |-> final_info[1] + 1,
                   total_results |-> 0, results_per_page |-> 0,
                   has_next |-> final_info[2][1], after |-> final_info[2][2],
                   first |-> FALSE, err |-> "none"]
    ELSE [pc |-> "loop", index |-> 0, total_results |-> 0,
          results_per_page |-> 0, has_next |-> TRUE, after |-> 0,
          first |-> FALSE, err |-> "none"]

\* get_git_vuln_data from entry to the while loop.
get_git_vuln_data_start(st) ==
    IF exists(st, 0)
    THEN LET final_info == get_resume_info(st, "git_vuln")
         IN  IF final_info = <<>>
             THEN Raised("IndexError")        \* final_info[0] on ()
             ELSE [pc |-> "loop", index |-> final_info[1],
                   total_results |-> 0, results_per_page |-> 0,
                   has_next |-> final_info[2][1], after |-> final_info[2][2],
                   first |-> FALSE, err |-> "none"]
    ELSE [pc |-> "loop", index |-> 0, total_results |-> 0,
          results_per_page |-> 0, has_next |-> TRUE, after |-> 0,
          first |-> FALSE, err |-> "none"]

fetch_start(st, fd) ==
    IF fd = "nist" THEN get_cve_loop_start(st)
    ELSE IF fd = "git_vuln" THEN get_git_vuln_data_start(st)
    ELSE get_ghsa_data_start(st, fd)

\* The continuation the request under way carries: params['startIndex']
\* (nist) or query_vars['after'] (GitHub; 0 stands for no cursor).
ReqSrc == IF feed = "nist" THEN index ELSE after

\* Whether the request_stream_to_file call under way has a file_callback.
HasCallback == feed # "nist" \/ first

\* A caller starts a fetch on the prefix.
StartFetch ==
    /\ pc \in {"idle", "done", "failed"}
    /\ calls < MaxCalls
    /\ calls' = calls + 1
    /\ LET l == fetch_start(store, feed)
       IN  /\ pc' = l.pc /\ index' = l.index
           /\ total_results' = l.total_results
           /\ results_per_page' = l.results_per_page
           /\ has_next' = l.has_next /\ after' = l.after
           /\ first' = l.first /\ err' = l.err
    /\ attempt' = 0 /\ mr_attempt' = 0 /\ response' = "none"
    /\ resumed' = IF exists(store, 0)
                  THEN [scanned |-> TRUE, ret |-> get_resume_info(store, feed)]
                  ELSE NotResumed
    /\ first_req' = NoReq
    /\ last_exc' = "none"
    /\ slept' = FALSE /\ rstf_reqs' = 0
    /\ UNCHANGED clean
    /\ UNCHANGED <<utilVars, recVars, upVars, store, resume_info>>

\* while start_index < total_results / while has_next: one more page, or
\* the fetch call returns.
LoopHead ==
    /\ pc = "loop"
    /\ pc' = IF (feed = "nist" /\ index < total_results)
                \/ (feed # "nist" /\ has_next)
             THEN "rstf" ELSE "done"
    /\ attempt' = 0
    /\ last_exc' = "none"
    /\ rstf_reqs' = 0
    /\ UNCHANGED <<index, total_results, results_per_page, has_next, after,
                   first, mr_attempt, response, err, calls, resumed,
                   first_req, clean, slept>>
    /\ UNCHANGED <<utilVars, recVars, upVars, store, resume_info>>

\* Variant in which start_index never goes past total_results.
AfterReturn_clamped(ret) ==
    IF feed = "nist" /\ first
    THEN IF ret = None
         THEN /\ pc' = "failed" /\ err' = "TypeError"
              /\ UNCHANGED <<index, total_results, results_per_page, first>>
         ELSE /\ total_results' = ret[1]
              /\ results_per_page' = ret[2]
              /\ index' = IF index + ret[2] > ret[1] THEN ret[1]
                          ELSE index + ret[2]
              /\ first' = FALSE
              /\ pc' = "loop" /\ err' = err
    ELSE IF feed = "nist"
    THEN /\ index' = IF index + results_per_page > total_results
                     THEN total_results ELSE index + results_per_page
         /\ pc' = "sleep"
         /\ UNCHANGED <<total_results, results_per_page, first, err>>
    ELSE IF ret = None
         THEN /\ pc' = "failed" /\ err' = "TypeError"
              /\ UNCHANGED <<index, total_results, results_per_page, first>>
         ELSE /\ index' = index + 1
              /\ pc' = "loop"
              /\ UNCHANGED <<total_results, results_per_page, first, err>>

\* The caller's statements after request_stream_to_file returned ret.
AfterReturn(ret) ==
    IF feed = "nist" /\ first
    THEN IF ret = None
         THEN /\ pc' = "failed" /\ err' = "TypeError"  \* unpacking None
              /\ UNCHANGED <<index, total_results, results_per_page, first>>
         ELSE /\ total_results' = ret[1]
              /\ results_per_page' = ret[2]
              /\ index' = index + ret[2]
              /\ first' = FALSE
              /\ pc' = "loop" /\ err' = err
    ELSE IF feed = "nist"
    THEN /\ index' = index + results_per_page    \* the result is not read
         /\ pc' = "sleep"
         /\ UNCHANGED <<total_results, results_per_page, first, err>>
    ELSE IF ret = None
         THEN /\ pc' = "failed" /\ err' = "TypeError"  \* ret_tuple[0]
              /\ UNCHANGED <<index, total_results, results_per_page, first>>
         ELSE /\ index' = index + 1
              /\ pc' = "loop"
              /\ UNCHANGED <<total_results, results_per_page, first, err>>

\* has_next and query_vars['after'] after request_stream_to_file returned.
AfterReturnCursor(ret) ==
    IF feed = "nist" \/ ret = None
    THEN UNCHANGED <<has_next, after>>
    ELSE has_next' = ret[1] /\ after' = ret[2]

\* except Exception in request_stream_to_file: count the attempt.
Except ==
    /\ attempt' = attempt + 1
    /\ IF attempt + 1 > allowed_attempts
       THEN pc' = "failed" /\ err' = "RuntimeError"
       ELSE pc' = "rstf" /\ err' = err

\* while attempt < allowed_attempts of request_stream_to_file: call
\* make_request, or fall out of the loop and return None.
RstfLoop ==
    /\ pc = "rstf"
    /\ IF attempt < allowed_attempts
       THEN /\ pc' = "http"
            /\ mr_attempt' = 0 /\ response' = "none"
            /\ UNCHANGED <<index, total_results, results_per_page, has_next,
                           after, first, err>>
       ELSE /\ AfterReturn(None)
            /\ AfterReturnCursor(None)
            /\ UNCHANGED <<mr_attempt, response>>
    /\ UNCHANGED <<attempt, calls, resumed, first_req, clean, last_exc,
                   slept, rstf_reqs>>
    /\ UNCHANGED <<utilVars, recVars, upVars, store, resume_info>>

\* One pass of the while loop of make_request: requests.request is called
\* and its response kept; an exception leaves make_request at once.
HttpRequest ==
    /\ pc = "http"
    /\ mr_attempt < allowed_attempts
    /\ mr_attempt' = mr_attempt + 1
    /\ first_req' = IF first_req = NoReq
                    THEN [src |-> ReqSrc, dest |-> index] ELSE first_req
    /\ \E outcome \in HttpOutcomes :
          /\ IF outcome = "exc"
             THEN Except /\ last_exc' = "request" /\ UNCHANGED response
             ELSE /\ response' = outcome
                  /\ UNCHANGED <<pc, attempt, err, last_exc>>
          /\ clean' = (clean /\ outcome = "ok200")
    /\ slept' = FALSE
    /\ rstf_reqs' = IF rstf_reqs < ReqCap THEN rstf_reqs + 1 ELSE rstf_reqs
    /\ UNCHANGED <<index, total_results, results_per_page, has_next, after,
                   first, calls, resumed>>
    /\ UNCHANGED <<utilVars, recVars, upVars, store, resume_info>>

\* make_request after its loop: an ok response is returned, anything else
\* raises (raise_for_status). On status 200 request_stream_to_file opens
\* the page file for writing, which truncates it; on another ok status it
\* goes round its loop again.
MakeRequestReturn ==
    /\ pc = "http"
    /\ mr_attempt = allowed_attempts
    /\ IF response = "ok200"
       THEN /\ store' = [store EXCEPT ![index] = Corrupt]
            /\ pc' = "write"
            /\ UNCHANGED <<attempt, err, last_exc>>
       ELSE IF response = "ok204"
       THEN /\ pc' = "rstf"
            /\ UNCHANGED <<store, attempt, err, last_exc>>
       ELSE Except /\ last_exc' = "status" /\ UNCHANGED store
    /\ UNCHANGED <<index, total_results, results_per_page, has_next, after,
                   first, mr_attempt, response, calls, resumed, first_req,
                   clean, slept, rstf_reqs>>
    /\ UNCHANGED <<utilVars, recVars, upVars, resume_info>>

\* The response is streamed into the page file, then file_callback (if
\* any) reads the file and request_stream_to_file returns its result.
WriteFile ==
    /\ pc = "write"
    /\ \E outcome \in WriteOutcomes :
          /\ clean' = (clean /\ outcome = "good")
          /\ IF outcome = "broken"
             THEN /\ Except
                  /\ last_exc' = "stream"
                  /\ UNCHANGED <<store, index, total_results,
                                 results_per_page, has_next, after, first>>
             ELSE LET page == IF outcome = "good"
                              THEN UpPage(feed, ReqSrc, up_total, up_rpp)
                              ELSE Corrupt
                  IN  /\ store' = [store EXCEPT ![index] = page]
                      /\ IF HasCallback /\ callback_raises(page)
                         THEN /\ Except
                              /\ last_exc' = "callback"
                              /\ UNCHANGED <<index, total_results,
                                             results_per_page, has_next,
                                             after, first>>
                         ELSE LET ret == IF HasCallback
                                         THEN resume_callback(feed, page)
                                         ELSE None
                              IN  /\ AfterReturn(ret)
                                  /\ AfterReturnCursor(ret)
                                  /\ last_exc' = "none"
                                  /\ UNCHANGED attempt
    /\ UNCHANGED <<mr_attempt, response, calls, resumed, first_req, slept,
                   rstf_reqs>>
    /\ UNCHANGED <<utilVars, recVars, upVars, resume_info>>

\* sleep(_SLEEP_TIME) at the end of a pass of the loop of _get_cve_loop.
Sleep ==
    /\ pc = "sleep"
    /\ pc' = "loop"
    /\ slept' = TRUE
    /\ UNCHANGED <<index, total_results, results_per_page, has_next, after,
                   first, attempt, mr_attempt, response, err, calls, resumed,
                   first_req, clean, last_exc, rstf_reqs>>
    /\ UNCHANGED <<utilVars, recVars, upVars, store, resume_info>>

\* The process running the fetch call is killed: its locals are gone, the
\* page files stay as they are.
Kill ==
    /\ pc \in {"loop", "rstf", "http", "write", "sleep"}
    /\ pc' = "idle" /\ index' = 0 /\ total_results' = 0
    /\ results_per_page' = 0 /\ has_next' = FALSE /\ after' = 0
    /\ first' = FALSE /\ attempt' = 0 /\ mr_attempt' = 0
    /\ response' = "none" /\ err' = "none" /\ last_exc' = "none"
    /\ slept' = FALSE /\ rstf_reqs' = 0
    /\ UNCHANGED <<calls, resumed, first_req, clean>>
    /\ UNCHANGED <<utilVars, recVars, upVars, store, resume_info>>

Init ==
    /\ RecIdle
    /\ feed \in Feeds
    /\ up_total \in 1..MaxTotal
    /\ up_rpp \in Rpps
    /\ store = EmptyStore
    /\ resume_info = NotCalled
    /\ FetchIdle
    /\ UtilIdle

Next ==
    \/ StartFetch
    \/ LoopHead
    \/ RstfLoop
    \/ HttpRequest
    \/ MakeRequestReturn
    \/ WriteFile
    \/ Sleep
    \/ Kill

Spec == Init /\ [][Next]_vars

(***************************************************************************)
(* Properties of the fetchers, checked under Spec.                         *)
(***************************************************************************)

\* C8: a fetch call that finds the first page under the prefix failing
\* inspection starts over as a fresh session (first request, offset 0 / no
\* cursor, page index 0) instead of failing.
C8_RestartsFromScratch ==
    [][(calls' = calls + 1 /\ store[0].kind = "corrupt") =>
          LET fresh == fetch_start(EmptyStore, feed)
          IN  /\ pc' = fresh.pc /\ err' = "none"
              /\ index' = fresh.index /\ after' = fresh.after
              /\ has_next' = fresh.has_next /\ first' = fresh.first]_vars

\* C9: a page file that is complete and passes inspection is never written
\* again (opening it for writing would change it).
C9_ValidPageNeverRewritten ==
    [][\A i \in Idx : store[i].kind = "valid" => store'[i] = store[i]]_vars

\* The request an uninterrupted session issues right after the resume point.
ExpectedRequest ==
    IF feed = "nist"
    THEN [src  |-> resumed.ret[1] + resumed.ret[2][2],
          dest |-> resumed.ret[1] + resumed.ret[2][2]]
    ELSE [src |-> resumed.ret[2][2], dest |-> resumed.ret[1] + 1]

\* Whether the resume point shows that the session has fetched every page.
SessionFinished ==
    IF feed = "nist"
    THEN resumed.ret[1] + resumed.ret[2][2] >= resumed.ret[2][1]
    ELSE ~resumed.ret[2][1]

\* C10: a call that found page 0 and a resume point issues as its first
\* request the one following the resume point (offset lastIndex +
\* resultsPerPage; endCursor of the last valid page, written to index
\* lastIndex + 1), and issues none when the resume point shows the end.
C10_ResumeContinues ==
    (resumed.scanned /\ resumed.ret # <<>>) =>
        \/ first_req = NoReq
        \/ ~SessionFinished /\ first_req = ExpectedRequest

\* The offsets of a NIST session: 0, R, 2R, ... below T.
NistOffsets == {o \in Idx : o % up_rpp = 0 /\ o < up_total}

\* The page indices of a session: the offsets (nist), 0 .. last page
\* (GitHub, where page i is the answer to the cursor that page i-1 gave).
SessionPages ==
    IF feed = "nist" THEN NistOffsets
    ELSE {i \in Idx : i * up_rpp < up_total}

\* C11: in a fresh NIST session whose requests all succeed, _get_cve_loop
\* issues exactly one request for each offset 0, R, 2R, ... below T, in
\* increasing order, writes exactly the page files of those offsets, holds
\* offset (i+1)*R after page i, and issues no request once offset >= T.
C11_OneRequestPerOffset ==
    (feed = "nist" /\ calls = 1 /\ clean /\ pc # "idle") =>
        /\ pc # "failed"
        /\ pc = "write" => mr_attempt = 1
        /\ pc \in {"rstf", "http", "write"} =>
              /\ index \in NistOffsets
              /\ \A o \in NistOffsets : store[o].kind = "valid" <=> o < index
        /\ pc \in {"loop", "sleep", "done"} =>
              /\ index > 0 /\ index % up_rpp = 0
              /\ \A o \in NistOffsets : store[o].kind = "valid" <=> o < index
        /\ pc = "done" =>
              /\ index >= up_total
              /\ \A i \in Idx : exists(store, i) <=> i \in NistOffsets

\* C12: when the inspection of a page that request_stream_to_file has just
\* written fails and the call ends on that failure, the page file is gone
\* after the call and the fetch has failed.
C12_FailedInspectionRemovesPage ==
    (pc \in {"loop", "sleep", "done", "failed"} /\ last_exc = "callback") =>
        /\ pc = "failed"
        /\ store[index].kind = "absent"

\* C13: when the download of a page other than the first has failed on
\* every attempt, the fetch call ends with an error, so no later page is
\* requested, and the page files stay as they are.
C13_FailedPageAborts ==
    [][(pc = "rstf" /\ attempt >= allowed_attempts /\ ReqSrc # 0
        /\ pc' # "idle") =>
          (pc' = "failed" /\ store' = store)]_vars

\* C14: when every attempt of request_stream_to_file has failed, it has made
\* no more than allowed_attempts attempts and raises RuntimeError; it does
\* not return normally.
C14_ExhaustedAttemptsRaise ==
    [][(pc = "rstf" /\ attempt >= allowed_attempts /\ pc' # "idle") =>
          (attempt = allowed_attempts /\ pc' = "failed"
           /\ err' = "RuntimeError")]_vars

\* C15: whenever fetch calls on a prefix were only ever cut short by kills
\* (every request answered 200 and every write that finished was whole), a
\* later call that ends has returned normally with a valid page on disk for
\* every page of the session.
C15_RecoversAfterKill ==
    (calls >= 2 /\ clean /\ pc \in {"done", "failed"}) =>
        /\ pc = "done"
        /\ \A i \in SessionPages : store[i].kind = "valid"

\* C23: in _get_cve_loop the first request for a page, when the call has
\* issued a request before, is issued only after sleep(_SLEEP_TIME) has run
\* since that request.
C23_DelayBetweenRequests ==
    [][(feed = "nist" /\ pc = "rstf" /\ pc' = "http" /\ rstf_reqs = 0
        /\ first_req # NoReq) => slept]_vars

\* C26 as stated: a fresh session whose requests succeed ends its loop with
\* start_index equal to totalResults.
C26_OffsetEqualsTotal ==
    (feed = "nist" /\ calls = 1 /\ clean /\ pc = "done") => index = up_total

\* C26: a fresh session ends its loop with start_index equal to the first
\* multiple of resultsPerPage that is not below totalResults (300 for
\* totalResults 250 and resultsPerPage 100).
C26_OffsetPastTotal ==
    (feed = "nist" /\ calls = 1 /\ pc = "done") =>
        index = ((up_total + up_rpp - 1) \div up_rpp) * up_rpp

\* A fresh session over a total that is no multiple of the page size has
\* ended past the total.
C26_Witness ==
    /\ feed = "nist" /\ calls = 1 /\ clean /\ pc = "done"
    /\ up_total = 3 /\ up_rpp = 2
    /\ index = 4

\* C27: make_request sends at most allowed_attempts requests, and none
\* after a response with an acceptable status.
C27_StopsAtAcceptedResponse ==
    [][(pc = "http" /\ response \in {"ok200", "ok204"}) =>
          (mr_attempt' <= mr_attempt /\ mr_attempt <= allowed_attempts)]_vars

\* C28: one call of request_stream_to_file sends no more requests than
\* allowed_attempts calls of make_request can send, whatever the upstream
\* answers.
C28_BoundedRequests == rstf_reqs <= allowed_attempts * allowed_attempts

\* C29: whenever _get_cve_loop has returned normally, there is a valid page
\* on disk for every offset 0, R, 2R, ... below totalResults.
C29_ReturnMeansComplete ==
    (feed = "nist" /\ pc = "done") =>
        \A o \in NistOffsets : store[o].kind = "valid"

\* C25 (checked under SpecReconcile): a call whose incoming frame holds two
\* rows of one composite key does not return a result.
C25_DuplicateKeysRejected ==
    (rec_result.status # "pending" /\ ~MissingKeyCol /\ ~UniqueKeys(p_df)) =>
        rec_result.status # "ok"

(***************************************************************************)
(* utils/transform.py consolidate_partial_datafiles. A file is the         *)
(* sequence of its lines; the parts are csv files as export_df writes      *)
(* them, a header line followed by the data lines, every line ended.       *)
(***************************************************************************)
PartFiles ==
    {<<"h">>, <<"h", "a">>, <<"h", "a", "b">>, <<"h", "b", "a">>,
     <<"g", "c">>, <<"g", "c", "a", "b">>}

\* A destination that is taken, and a temp file an earlier call left.
OldDest == [exists |-> TRUE, lines |-> <<"h", "old">>]
StaleTmp == [exists |-> TRUE, lines |-> <<"h", "stale">>]

\* header_ref.readline(): the first line, nothing at the end of the file.
readline(file_lines) ==
    IF file_lines = <<>> THEN <<>> ELSE <<Head(file_lines)>>

\* Variant that does not read the header off before readlines().
readlines_all(file_lines) == file_lines

\* data_ref.readline() followed by data_ref.readlines(): the lines after
\* the first.
readlines(file_lines) ==
    IF file_lines = <<>> THEN <<>> ELSE Tail(file_lines)

\* open_dest.write(data) on the open temp file.
write(file, data) == [exists |-> TRUE, lines |-> file.lines \o data]

\* Variant of the except clause that leaves the temp file.
except_keep(op, exc) ==
    /\ cons_pc' = "raised" /\ fault' = op /\ cons_exc' = exc
    /\ UNCHANGED tmp_loc

\* except Exception as exc: tmp_loc.delete(True, ...) and raise exc, for
\* the operation op that raised exc inside the try block.
except_clause(op, exc) ==
    /\ tmp_loc' = NoFile
    /\ cons_pc' = "raised" /\ fault' = op /\ cons_exc' = exc

\* Variant of the entry that does not look at the destination.
CheckDest_none ==
    /\ cons_pc = "entry"
    /\ cons_pc' = "open_tmp"
    /\ UNCHANGED <<retried, raw_files, dest_loc, tmp_loc, raw_i, pending, part_opened,
                   fault, cons_exc>>
    /\ UNCHANGED <<scanVars, hdrVars, kevVars, recVars, upVars, store, resume_info, fetchVars>>

\* if dest_loc.exists(): raise FileExistsError
CheckDest ==
    /\ cons_pc = "entry"
    /\ IF dest_loc.exists
       THEN cons_pc' = "raised" /\ cons_exc' = "FileExistsError"
       ELSE cons_pc' = "open_tmp" /\ UNCHANGED cons_exc
    /\ UNCHANGED <<retried, raw_files, dest_loc, tmp_loc, raw_i, pending, part_opened,
                   fault>>
    /\ UNCHANGED <<scanVars, hdrVars, kevVars, recVars, upVars, store, resume_info, fetchVars>>

\* Variant that opens the temp file without emptying it.
OpenTmp_append ==
    /\ cons_pc = "open_tmp"
    /\ \E ok \in BOOLEAN :
          IF ok
          THEN /\ tmp_loc' = [exists |-> TRUE, lines |-> tmp_loc.lines]
               /\ cons_pc' = "header"
               /\ UNCHANGED <<fault, cons_exc>>
          ELSE except_clause("open", "OSError")
    /\ UNCHANGED <<retried, raw_files, dest_loc, raw_i, pending, part_opened>>
    /\ UNCHANGED <<scanVars, hdrVars, kevVars, recVars, upVars, store, resume_info, fetchVars>>

\* resolve_open_write_method(tmp_loc, 'wb'): the temp file is created, or
\* emptied when it is there already.
OpenTmp ==
    /\ cons_pc = "open_tmp"
    /\ \E ok \in BOOLEAN :
          IF ok
          THEN /\ tmp_loc' = [exists |-> TRUE, lines |-> <<>>]
               /\ cons_pc' = "header"
               /\ UNCHANGED <<fault, cons_exc>>
          ELSE except_clause("open", "OSError")
    /\ UNCHANGED <<retried, raw_files, dest_loc, raw_i, pending, part_opened>>
    /\ UNCHANGED <<scanVars, hdrVars, kevVars, recVars, upVars, store, resume_info, fetchVars>>

\* The first line of raw_files[0] is written as the header.
WriteHeader ==
    /\ cons_pc = "header"
    /\ IF raw_files = <<>>
       THEN /\ except_clause("raw_files[0]", "IndexError")
            /\ UNCHANGED <<raw_i, part_opened>>
       ELSE /\ part_opened' = TRUE
            /\ \E outcome \in {"read", "write", "ok"} :
                  IF outcome = "ok"
                  THEN /\ tmp_loc' = write(tmp_loc, readline(raw_files[1]))
                       /\ raw_i' = 1
                       /\ cons_pc' = "part"
                       /\ UNCHANGED <<fault, cons_exc>>
                  ELSE /\ except_clause(outcome, "OSError")
                       /\ UNCHANGED raw_i
    /\ UNCHANGED <<retried, raw_files, dest_loc, pending>>
    /\ UNCHANGED <<scanVars, hdrVars, kevVars, recVars, upVars, store, resume_info, fetchVars>>

\* for raw_file in raw_files: the part is opened, its header read off and
\* its other lines read.
OpenPart ==
    /\ cons_pc = "part"
    /\ raw_i <= Len(raw_files)
    /\ part_opened' = TRUE
    /\ \E ok \in BOOLEAN :
          IF ok
          THEN /\ pending' = readlines(raw_files[raw_i])
               /\ cons_pc' = "lines"
               /\ UNCHANGED <<tmp_loc, fault, cons_exc>>
          ELSE /\ except_clause("read", "OSError")
               /\ UNCHANGED pending
    /\ UNCHANGED <<retried, raw_files, dest_loc, raw_i>>
    /\ UNCHANGED <<scanVars, hdrVars, kevVars, recVars, upVars, store, resume_info, fetchVars>>

\* for line in data_ref.readlines(): open_dest.write(line); after the last
\* line the part is closed and the for loop goes to the next part.
WriteLine ==
    /\ cons_pc = "lines"
    /\ IF pending = <<>>
       THEN /\ raw_i' = raw_i + 1
            /\ cons_pc' = "part"
            /\ UNCHANGED <<tmp_loc, pending, fault, cons_exc>>
       ELSE \E ok \in BOOLEAN :
               IF ok
               THEN /\ tmp_loc' = write(tmp_loc, <<Head(pending)>>)
                    /\ pending' = Tail(pending)
                    /\ UNCHANGED <<cons_pc, raw_i, fault, cons_exc>>
               ELSE /\ except_clause("write", "OSError")
                    /\ UNCHANGED <<pending, raw_i>>
    /\ UNCHANGED <<retried, raw_files, dest_loc, part_opened>>
    /\ UNCHANGED <<scanVars, hdrVars, kevVars, recVars, upVars, store, resume_info, fetchVars>>

\* The with block of the temp file ends: the file is closed, which writes
\* out what is buffered.
CloseTmp ==
    /\ cons_pc = "part"
    /\ raw_i > Len(raw_files)
    /\ \E ok \in BOOLEAN :
          IF ok
          THEN cons_pc' = "move" /\ UNCHANGED <<tmp_loc, fault, cons_exc>>
          ELSE except_clause("close", "OSError")
    /\ UNCHANGED <<retried, raw_files, dest_loc, raw_i, pending, part_opened>>
    /\ UNCHANGED <<scanVars, hdrVars, kevVars, recVars, upVars, store, resume_info, fetchVars>>

\* Variant of the move that copies the temp file line by line and may die
\* on the way.
Move_copy ==
    /\ cons_pc = "move"
    /\ \E n \in 0..Len(tmp_loc.lines) :
          /\ dest_loc' = [exists |-> TRUE,
                          lines |-> SubSeq(tmp_loc.lines, 1, n)]
          /\ IF n = Len(tmp_loc.lines)
             THEN tmp_loc' = NoFile /\ cons_pc' = "returned"
             ELSE UNCHANGED tmp_loc /\ cons_pc' = "killed"
    /\ UNCHANGED <<fault, cons_exc>>
    /\ UNCHANGED <<retried, raw_files, raw_i, pending, part_opened>>
    /\ UNCHANGED <<scanVars, hdrVars, kevVars, recVars, upVars, store, resume_info, fetchVars>>

\* tmp_loc.move(dest_loc), after the try block: the temp file takes the
\* place of the destination in one step.
Move ==
    /\ cons_pc = "move"
    /\ \E ok \in BOOLEAN :
          IF ok
          THEN /\ dest_loc' = tmp_loc
               /\ tmp_loc' = NoFile
               /\ cons_pc' = "returned"
               /\ UNCHANGED <<fault, cons_exc>>
          ELSE /\ cons_pc' = "raised" /\ fault' = "move"
               /\ cons_exc' = "OSError"
               /\ UNCHANGED <<dest_loc, tmp_loc>>
    /\ UNCHANGED <<retried, raw_files, raw_i, pending, part_opened>>
    /\ UNCHANGED <<scanVars, hdrVars, kevVars, recVars, upVars, store, resume_info, fetchVars>>

\* The process running the call is killed between two of its steps: the
\* files stay as they are.
Crash ==
    /\ cons_pc \in {"open_tmp", "header", "part", "lines", "move"}
    /\ cons_pc' = "killed"
    /\ UNCHANGED <<retried, raw_files, dest_loc, tmp_loc, raw_i, pending,
                   part_opened, fault, cons_exc>>
    /\ UNCHANGED <<scanVars, hdrVars, kevVars, recVars, upVars, store, resume_info, fetchVars>>

\* The caller calls consolidate_partial_datafiles again with the same
\* destination and parts after a call that raised or was killed.
Retry ==
    /\ cons_pc \in {"raised", "killed"}
    /\ cons_pc' = "entry" /\ raw_i' = 0 /\ pending' = <<>>
    /\ part_opened' = FALSE /\ fault' = "none" /\ cons_exc' = "none"
    /\ retried' = TRUE
    /\ UNCHANGED <<raw_files, dest_loc, tmp_loc>>
    /\ UNCHANGED <<scanVars, hdrVars, kevVars, recVars, upVars, store, resume_info, fetchVars>>

ConsInit ==
    /\ RecIdle
    /\ feed = "nist" /\ up_total = 1 /\ up_rpp = 1
    /\ store = EmptyStore
    /\ resume_info = NotCalled
    /\ FetchIdle
    /\ ScanIdle /\ HdrIdle /\ KevIdle
    /\ raw_files \in SeqsUpTo(PartFiles, MaxParts)
    /\ dest_loc \in {NoFile, OldDest}
    /\ tmp_loc \in {NoFile, StaleTmp}
    /\ cons_pc = "entry" /\ raw_i = 0 /\ pending = <<>>
    /\ part_opened = FALSE /\ retried = FALSE
    /\ fault = "none" /\ cons_exc = "none"

ConsNext ==
    \/ CheckDest
    \/ OpenTmp
    \/ WriteHeader
    \/ OpenPart
    \/ WriteLine
    \/ CloseTmp
    \/ Move
    \/ Crash
    \/ Retry

SpecConsolidate == ConsInit /\ [][ConsNext]_vars

(***************************************************************************)
(* Properties of consolidate_partial_datafiles, checked under              *)
(* SpecConsolidate.                                                        *)
(***************************************************************************)

\* C18: when the destination exists, the call raises FileExistsError and
\* changes nothing: the destination and the temp path are as before and no
\* part has been opened.
C18_TakenDestinationFails ==
    [][(cons_pc = "entry" /\ dest_loc.exists) =>
          /\ cons_pc' = "raised" /\ cons_exc' = "FileExistsError"
          /\ dest_loc' = dest_loc /\ tmp_loc' = tmp_loc
          /\ raw_files' = raw_files /\ ~part_opened']_vars

\* The call has failed on a taken destination, with parts to consolidate.
C18_Witness ==
    /\ cons_pc = "raised" /\ cons_exc = "FileExistsError"
    /\ dest_loc = OldDest
    /\ raw_files # <<>>

\* The data lines of the parts, in the order of the parts.
RECURSIVE DataLines(_)
DataLines(parts) ==
    IF parts = <<>> THEN <<>>
    ELSE Tail(Head(parts)) \o DataLines(Tail(parts))

\* C19: after a call that returned, the destination holds the first line of
\* the first part followed by the lines after the first of every part, in
\* the order of the parts and of their lines, and nothing else.
C19_HeaderThenData ==
    cons_pc = "returned" =>
        dest_loc = [exists |-> TRUE,
                    lines |-> <<raw_files[1][1]>> \o DataLines(raw_files)]

\* Parts of 2 and 3 data rows have given 1 header line and 5 data lines.
C19_Witness ==
    /\ cons_pc = "returned"
    /\ raw_files = << <<"h", "a", "b">>, <<"g", "c", "a", "b">> >>
    /\ dest_loc.lines = <<"h", "a", "b", "c", "a", "b">>

\* C20: when an operation inside the try block has failed (opening the
\* temp file, reading a part, writing a line, raw_files[0] of an empty
\* list), the call has raised that error and neither the destination nor
\* the temp file exists.
C20_FailureLeavesNothing ==
    (cons_pc = "raised" /\ fault \notin {"none", "move"}) =>
        /\ ~dest_loc.exists
        /\ ~tmp_loc.exists
        /\ cons_exc = IF fault = "raw_files[0]" THEN "IndexError"
                      ELSE "OSError"

\* A write failed after lines of the first part were in the temp file.
C20_Witness ==
    /\ cons_pc = "raised" /\ fault = "write"
    /\ raw_i = 2
    /\ ~tmp_loc.exists /\ ~dest_loc.exists

\* C21: in every state of a consolidation whose destination was not taken
\* at the start, also after a kill between two steps and in a later call,
\* a destination that exists holds the header of the first part and the
\* data lines of every part.
C21_DestinationCompleteOrAbsent ==
    (dest_loc.exists /\ dest_loc # OldDest) =>
        /\ raw_files # <<>>
        /\ dest_loc.lines = <<raw_files[1][1]>> \o DataLines(raw_files)

\* The call was killed with a part half written to the temp file; there is
\* no destination.
C21_Witness ==
    /\ cons_pc = "killed"
    /\ pending # <<>>
    /\ Len(tmp_loc.lines) >= 2
    /\ ~dest_loc.exists

HeaderArgs ==
    {[none |-> TRUE, keys |-> {}]}
    \cup {[none |-> FALSE, keys |-> K] : K \in SUBSET {"apiKey", "User-Agent"}}

\* _check_headers: the globals after the call.
check_headers(has_token, sleep_time, arg) ==
    LET headers == IF arg.none THEN {} ELSE arg.keys
        step1 == IF ~has_token /\ "apiKey" \in headers
                 THEN [HAS_TOKEN |-> TRUE, SLEEP_TIME |-> 3]
                 ELSE [HAS_TOKEN |-> has_token, SLEEP_TIME |-> sleep_time]
    IN  IF step1.HAS_TOKEN /\ "apiKey" \notin headers
        THEN [HAS_TOKEN |-> FALSE, SLEEP_TIME |-> 6]
        ELSE step1

HdrInit ==
    /\ RecIdle
    /\ feed = "nist" /\ up_total = 1 /\ up_rpp = 1
    /\ store = EmptyStore
    /\ resume_info = NotCalled
    /\ FetchIdle
    /\ ScanIdle /\ ConsIdle /\ KevIdle
    /\ HdrIdle

\* One of the public fetch functions of the module calls
\* _check_headers(headers).
CheckHeaders ==
    /\ Len(header_calls) < MaxHeaderCalls
    /\ \E arg \in HeaderArgs :
          LET after_call == check_headers(HAS_TOKEN, SLEEP_TIME, arg)
          IN  /\ HAS_TOKEN' = after_call.HAS_TOKEN
              /\ SLEEP_TIME' = after_call.SLEEP_TIME
              /\ header_calls' =
                    Append(header_calls,
                           [headers |-> arg,
                            delay |-> after_call.SLEEP_TIME])
    /\ UNCHANGED <<scanVars, consVars, kevVars, recVars, upVars, store,
                   resume_info, fetchVars>>

SpecHeaders == HdrInit /\ [][CheckHeaders]_vars

\* C24: the delay that _check_headers leaves is a function of the presence
\* of 'apiKey' in its argument alone: one value for every call with the
\* key, one larger value for every call without it.
CarriesKey(call) == "apiKey" \in call.headers.keys

C24_DelayByCredentialAlone ==
    \A i, j \in 1..Len(header_calls) :
        /\ CarriesKey(header_calls[i]) = CarriesKey(header_calls[j]) =>
              header_calls[i].delay = header_calls[j].delay
        /\ (CarriesKey(header_calls[i]) /\ ~CarriesKey(header_calls[j])) =>
              header_calls[i].delay < header_calls[j].delay

(***************************************************************************)
(* datafeeds/cisa/tasks.py CISAKevDBUpdate.main, with get_cisa_kev over    *)
(* utils/api_requests.py request_stream_to_file.                           *)
(***************************************************************************)
\* Entries of the KEV catalogue.
KevRows == {"CVE-1", "CVE-2", "CVE-3"}

\* main up to the download: the table is created when missing, and when it
\* holds rows they are deleted and the deletion committed.
KevClear ==
    /\ kev_pc = "start"
    /\ kev_table' = {}
    /\ kev_pc' = "download"
    /\ UNCHANGED <<kev_before, kev_upstream, kev_file, kev_attempt,
                   kev_download>>
    /\ UNCHANGED <<scanVars, consVars, hdrVars, recVars, upVars, store,
                   resume_info, fetchVars>>

\* One pass of the loop of request_stream_to_file for tmp_file: the
\* request raises, is answered with a success status other than 200, the
\* stream breaks while the file is written, or the file is written whole.
KevAttempt ==
    /\ kev_pc = "download"
    /\ kev_attempt < allowed_attempts
    /\ \E outcome \in {"exc", "ok204", "broken", "good"} :
          /\ kev_attempt' = IF outcome \in {"exc", "broken"}
                            THEN kev_attempt + 1 ELSE kev_attempt
          /\ kev_file' = IF outcome = "broken" THEN "partial"
                         ELSE IF outcome = "good" THEN "whole"
                         ELSE kev_file
          /\ kev_pc' = IF outcome = "good" THEN "read" ELSE "download"
          /\ kev_download' = IF outcome = "good" THEN "ok" ELSE kev_download
    /\ UNCHANGED <<kev_table, kev_before, kev_upstream>>
    /\ UNCHANGED <<scanVars, consVars, hdrVars, recVars, upVars, store,
                   resume_info, fetchVars>>

\* The loop of request_stream_to_file ends after allowed_attempts failed
\* attempts: the function returns None and main goes on.
KevGiveUp ==
    /\ kev_pc = "download"
    /\ kev_attempt >= allowed_attempts
    /\ kev_pc' = "read"
    /\ kev_download' = "failed"
    /\ UNCHANGED <<kev_table, kev_before, kev_upstream, kev_file,
                   kev_attempt>>
    /\ UNCHANGED <<scanVars, consVars, hdrVars, recVars, upVars, store,
                   resume_info, fetchVars>>

\* tmp_file is read with pd.read_csv and its records are inserted: a
\* missing file raises, a partial file raises or gives some of the rows.
KevLoad ==
    /\ kev_pc = "read"
    /\ IF kev_file = "absent"
       THEN kev_pc' = "failed" /\ UNCHANGED kev_table
       ELSE IF kev_file = "whole"
       THEN kev_pc' = "done" /\ kev_table' = kev_upstream
       ELSE \/ kev_pc' = "failed" /\ UNCHANGED kev_table
            \/ /\ kev_pc' = "done"
               /\ kev_table' \in (SUBSET kev_upstream) \ {kev_upstream}
    /\ UNCHANGED <<kev_before, kev_upstream, kev_file, kev_attempt,
                   kev_download>>
    /\ UNCHANGED <<scanVars, consVars, hdrVars, recVars, upVars, store,
                   resume_info, fetchVars>>

KevInit ==
    /\ RecIdle
    /\ feed = "nist" /\ up_total = 1 /\ up_rpp = 1
    /\ store = EmptyStore
    /\ resume_info = NotCalled
    /\ FetchIdle
    /\ ScanIdle /\ ConsIdle /\ HdrIdle
    /\ kev_pc = "start"
    /\ kev_table \in SUBSET KevRows
    /\ kev_before = kev_table
    /\ kev_upstream \in (SUBSET KevRows) \ {{}}
    /\ kev_file = "absent" /\ kev_attempt = 0 /\ kev_download = "none"

KevNext ==
    \/ KevClear
    \/ KevAttempt
    \/ KevGiveUp
    \/ KevLoad

SpecKev == KevInit /\ [][KevNext]_vars

\* C30: when the KEV download has failed, the CISAKev table holds the rows
\* it held before the run.
C30_FailedDownloadKeepsTable ==
    kev_download = "failed" => kev_table = kev_before

====
